---- MODULE Spec2Model ----
(***************************************************************************)
(* Model of EpubToPdf.convert (src/src/index.ts): the package model        *)
(* builder (processEpub), the style aggregator (processCssFiles) and the   *)
(* HTML assembler (createCombinedHtml), followed by the rendering steps of *)
(* generatePdf.                                                            *)
(*                                                                         *)
(* Strings that the code splits or inspects are modelled structurally:     *)
(*   - a path, an href or an image src is the sequence of its segments     *)
(*     between "/" characters ("a/b.png" is <<"a", "b.png">>, "" is <<>>,  *)
(*     "/a" is <<"", "a">>, "assets/" is <<"assets", "">>);                *)
(*   - a stylesheet is a sequence of chunks (file text, custom text,       *)
(*     generated rules);                                                   *)
(*   - an HTML document is a title, a style element and a sequence of body *)
(*     elements.                                                           *)
(***************************************************************************)
EXTENDS Integers, Sequences, FiniteSets, TLC

\* ------------------------------------------------------------------------
\* Bounds of the model
\* ------------------------------------------------------------------------

\* Longest manifest section drawn for the package-structure inputs, and the
\* largest number of stylesheet items drawn for the stylesheet inputs.
MaxManifest == 2

\* Longest spine drawn.
MaxSpine == 2

\* Largest number of img elements in one content document.
MaxImgs == 1

\* ------------------------------------------------------------------------
\* Sequences and paths
\* ------------------------------------------------------------------------

SeqsUpTo(S, n) == UNION {[1..k -> S] : k \in 0..n}

NonEmptySeqsUpTo(S, n) == UNION {[1..k -> S] : k \in 1..n}

\* A path without its trailing empty segments (trailing "/" characters).
RECURSIVE StripTrailing(_)
StripTrailing(p) ==
    IF p = <<>> THEN <<>>
    ELSE IF p[Len(p)] = "" THEN StripTrailing(SubSeq(p, 1, Len(p) - 1))
    ELSE p

\* path.basename: the last segment, trailing separators ignored; "" for a
\* path that is empty or made of separators only.
Basename(p) ==
    LET q == StripTrailing(p) IN IF q = <<>> THEN "" ELSE q[Len(q)]

\* path.normalize on a relative path: "." and empty segments are dropped
\* and ".." removes the segment before it.
RECURSIVE NormalizeFrom(_, _)
NormalizeFrom(done, rest) ==
    IF rest = <<>> THEN done
    ELSE LET h == Head(rest) IN
         IF h = "" \/ h = "." THEN NormalizeFrom(done, Tail(rest))
         ELSE IF h = ".." /\ done # <<>> /\ done[Len(done)] # ".."
              THEN NormalizeFrom(SubSeq(done, 1, Len(done) - 1), Tail(rest))
         ELSE NormalizeFrom(Append(done, h), Tail(rest))

\* path.join(dir, href)
PathJoin(dir, href) == NormalizeFrom(<<>>, dir \o href)

\* path.dirname of a normalized path with at least one segment
Dirname(p) == SubSeq(p, 1, Len(p) - 1)

\* src.startsWith('assets/')
StartsWithAssets(src) == Len(src) >= 2 /\ src[1] = "assets"

\* `assets/${name}`
AssetRef(name) == <<"assets", name>>

\* ------------------------------------------------------------------------
\* Media types and file names (the substring tests of processEpub)
\* ------------------------------------------------------------------------

MediaTypes ==
    {"application/xhtml+xml", "text/css", "image/png",
     "application/x-font-ttf", "application/vnd.ms-opentype",
     "application/octet-stream"}

\* mediaType.includes('css')
IncludesCss(mt) == mt \in {"text/css"}

\* mediaType.includes('font')
IncludesFont(mt) == mt \in {"application/x-font-ttf"}

\* mediaType.includes('opentype')
IncludesOpentype(mt) == mt \in {"application/vnd.ms-opentype"}

\* mediaType.startsWith('image/')
StartsWithImage(mt) == mt \in {"image/png"}

\* href.endsWith('.ttf') || href.endsWith('.otf'), over the file names used
EndsWithTtfOrOtf(href) == href # <<>> /\ href[Len(href)] \in {"f.ttf", "g.otf"}

\* ------------------------------------------------------------------------
\* Inputs: an extracted EPUB tree and the options given to the constructor.
\* An optional value (an XML attribute or element, an option) is the empty
\* set when absent and a one-element set when present.
\* ------------------------------------------------------------------------

Xhtml == "application/xhtml+xml"

\* rootfile full-path of container.xml, and the directory it lies in
RootfilePath == <<"OEBPS", "content.opf">>

Ch1 == <<"ch1.xhtml">>
Ch2 == <<"text", "ch2.xhtml">>

\* The extracted tree is a function from the paths that exist to their
\* entries.  A regular file carries what the code
\* reads from it: for a content document whether its serialized body holds a
\* "</section>" and the src attributes of its img elements, for a stylesheet
\* the paths inside its url(...) references.  The texts of the stylesheets
\* drawn here hold no markup.
DocFile(section, imgs) ==
    [kind |-> "file", section |-> section, imgs |-> imgs, urls |-> <<>>]

CssFile(urls) ==
    [kind |-> "file", section |-> FALSE, imgs |-> <<>>, urls |-> urls]

BinaryFile == [kind |-> "file", section |-> FALSE, imgs |-> <<>>, urls |-> <<>>]

Directory == [kind |-> "dir", section |-> FALSE, imgs |-> <<>>, urls |-> <<>>]

\* dc:title texts: a plain one, one that contains "</section>", one that
\* contains "</style>", and ones that close the title element and open an
\* img element with the given src.
PlainTitle ==
    [text |-> "Book", section |-> FALSE, styleClose |-> FALSE, imgs |-> <<>>]

SectionTitle ==
    [text |-> "On </section>", section |-> TRUE, styleClose |-> FALSE,
     imgs |-> <<>>]

StyleTitle ==
    [text |-> "On </style>", section |-> FALSE, styleClose |-> TRUE,
     imgs |-> <<>>]

ImgTitle(src) ==
    [text |-> "</title><img>", section |-> FALSE, styleClose |-> FALSE,
     imgs |-> <<src>>]

NoOptions == [margin |-> {}, customCss |-> {}, preserveOriginalCss |-> {}]

DocItem(id, href) == [id |-> id, href |-> href, mediaType |-> Xhtml]

ItemRef(idref, linear) == [idref |-> idref, linear |-> linear]

\* An input of convert: the parsed container and package document, the
\* extracted tree, the options, and the awaited call of convert that rejects
\* for a reason outside the tree ("none" when every one of them resolves).
Package(pkg, title, items, itemrefs, files, opts) ==
    [package |-> pkg, title |-> title, items |-> items,
     itemrefs |-> itemrefs, files |-> files, opts |-> opts, fails |-> "none"]

\* values of the linear attribute of an itemref
LinearAttrs == {{}, {"no"}, {"yes"}}

TwoChapters ==
    [p \in {<<"OEBPS">>, <<"OEBPS", "text">>,
            <<"OEBPS">> \o Ch1, <<"OEBPS">> \o Ch2} |->
        IF p \in {<<"OEBPS">> \o Ch1, <<"OEBPS">> \o Ch2}
        THEN DocFile(TRUE, <<>>)
        ELSE Directory]

\* Package structure: manifests with repeated and distinct ids, spines with
\* resolvable and unresolvable idrefs.
StructureInputs ==
    {Package("ok", {PlainTitle}, items, refs, TwoChapters, NoOptions) :
        items \in NonEmptySeqsUpTo(
                    {DocItem(i, h) : i \in {"a", "b"}, h \in {Ch1, Ch2}},
                    MaxManifest),
        refs \in NonEmptySeqsUpTo(
                    {ItemRef(r, {}) : r \in {"a", "b", "zz"}}, MaxSpine)}

\* Content documents: present with or without a section element, missing,
\* or a path that exists but is no regular file.
DocStates == {"section", "plain", "missing", "dir"}

DocEntry(st) ==
    IF st = "section" THEN DocFile(TRUE, <<>>)
    ELSE IF st = "plain" THEN DocFile(FALSE, <<>>)
    ELSE Directory

ChapterTree(st1, st2) ==
    [p \in {<<"OEBPS">>, <<"OEBPS", "text">>} \cup
         {<<"OEBPS">> \o Ch1 : x \in {st1} \ {"missing"}} \cup
         {<<"OEBPS">> \o Ch2 : x \in {st2} \ {"missing"}} |->
        IF p = <<"OEBPS">> \o Ch1 THEN DocEntry(st1)
        ELSE IF p = <<"OEBPS">> \o Ch2 THEN DocEntry(st2)
        ELSE Directory]

AssemblyInputs ==
    {Package("ok", {t}, <<DocItem("a", Ch1), DocItem("b", Ch2)>>, refs,
             ChapterTree(st1, st2), NoOptions) :
        t \in {PlainTitle, SectionTitle},
        refs \in NonEmptySeqsUpTo(
                    {ItemRef(r, l) : r \in {"a", "b"}, l \in LinearAttrs},
                    MaxSpine),
        st1 \in DocStates, st2 \in DocStates}

\* Stylesheets: two readable ones (the second with a url reference), one
\* whose file is missing and one whose path is a directory.
CssA == <<"css", "a.css">>
CssB == <<"css", "b.css">>
CssGone == <<"css", "gone.css">>
CssDir == <<"css">>

CssItems ==
    {[id |-> "s1", href |-> CssA, mediaType |-> "text/css"],
     [id |-> "s2", href |-> CssB, mediaType |-> "text/css"],
     [id |-> "s3", href |-> CssGone, mediaType |-> "text/css"],
     [id |-> "s4", href |-> CssDir, mediaType |-> "text/css"]}

StyleTree ==
    [p \in {<<"OEBPS">>, <<"OEBPS">> \o Ch1, <<"OEBPS">> \o CssDir,
          <<"OEBPS">> \o CssA, <<"OEBPS">> \o CssB} |->
        IF p = <<"OEBPS">> \o Ch1 THEN DocFile(TRUE, <<>>)
        ELSE IF p = <<"OEBPS">> \o CssA THEN CssFile(<<>>)
        ELSE IF p = <<"OEBPS">> \o CssB
             THEN CssFile(<<<<"..", "fonts", "f.ttf">>>>)
        ELSE Directory]

OptionSets ==
    [margin : {{}, {"1"}}, customCss : {{}, {""}, {"p{}"}},
     preserveOriginalCss : {{}, {TRUE}, {FALSE}}]

StyleInputs ==
    {Package("ok", {t}, items, <<ItemRef("a", {})>>, StyleTree, opts) :
        t \in {PlainTitle, StyleTitle},
        items \in {<<DocItem("a", Ch1)>> \o s :
                      s \in SeqsUpTo(CssItems, MaxManifest)}
                  \cup {s \o <<DocItem("a", Ch1)>> :
                      s \in SeqsUpTo(CssItems, MaxManifest)},
        opts \in OptionSets}

\* Images: one content document whose img elements carry every shape of
\* src, a title that may bring an img element of its own, and one image
\* and one font in the manifest.
Srcs ==
    {<<>>, <<"p.png">>, <<"img", "p.png">>, <<"..", "img", "p.png">>,
     <<"", "abs", "p.png">>, <<"assets", "p.png">>,
     <<"assets", "sub", "p.png">>, <<"", "">>}

Pic == <<"img", "p.png">>
Font == <<"fonts", "f.ttf">>

ImageTree(imgs) ==
    [p \in {<<"OEBPS">>, <<"OEBPS", "img">>, <<"OEBPS", "fonts">>,
          <<"OEBPS">> \o Ch1, <<"OEBPS">> \o Pic, <<"OEBPS">> \o Font} |->
        IF p = <<"OEBPS">> \o Ch1 THEN DocFile(FALSE, imgs)
        ELSE IF Len(p) = 3 THEN BinaryFile
        ELSE Directory]

ImageInputs ==
    {Package("ok", t,
             <<DocItem("a", Ch1),
               [id |-> "i1", href |-> Pic, mediaType |-> "image/png"],
               [id |-> "f1", href |-> Font,
                mediaType |-> "application/x-font-ttf"]>>,
             <<ItemRef("a", {})>>, ImageTree(imgs), NoOptions) :
        t \in {{}, {PlainTitle}, {ImgTitle(<<"assets", "sub", "q.png">>)},
               {ImgTitle(<<"img", "q.png">>)}, {ImgTitle(<<>>)}},
        imgs \in SeqsUpTo(Srcs, MaxImgs)}

\* Assets: manifest items that are a font by media type, a font by file
\* name only, an image, an image whose file name ends in ".ttf", an image
\* whose file is missing, and a stylesheet, in every order and repetition.
PicTtf == <<"img", "f.ttf">>
FontOtf == <<"fonts", "g.otf">>
PicGone == <<"img", "gone.png">>

AssetItems ==
    {[id |-> "i1", href |-> Pic, mediaType |-> "image/png"],
     [id |-> "i2", href |-> PicTtf, mediaType |-> "image/png"],
     [id |-> "i3", href |-> PicGone, mediaType |-> "image/png"],
     [id |-> "f1", href |-> Font, mediaType |-> "application/x-font-ttf"],
     [id |-> "f2", href |-> FontOtf,
      mediaType |-> "application/octet-stream"],
     [id |-> "s1", href |-> CssA, mediaType |-> "text/css"]}

AssetTree ==
    [p \in {<<"OEBPS">>, <<"OEBPS", "img">>, <<"OEBPS", "fonts">>,
          <<"OEBPS">> \o Ch1, <<"OEBPS">> \o Pic, <<"OEBPS">> \o PicTtf,
          <<"OEBPS">> \o Font, <<"OEBPS">> \o FontOtf} |->
        IF p = <<"OEBPS">> \o Ch1 THEN DocFile(FALSE, <<>>)
        ELSE IF Len(p) = 3 THEN BinaryFile
        ELSE Directory]

AssetInputs ==
    {Package("ok", {PlainTitle}, <<DocItem("a", Ch1)>> \o assets,
             <<ItemRef("a", {})>>, AssetTree, NoOptions) :
        assets \in SeqsUpTo(AssetItems, MaxManifest)}

\* The awaited calls that can reject whatever the tree holds: the archive
\* extraction, the browser launch, and the calls on the page (page.pdf with
\* the write of the output included).
FailingSteps == {"extractEpub", "launch", "newPage", "goto", "pdf"}

FailureInputs ==
    {[Package("ok", {PlainTitle},
              <<DocItem("a", Ch1),
                [id |-> "i1", href |-> Pic, mediaType |-> "image/png"]>>,
              <<ItemRef("a", {})>>, AssetTree, NoOptions)
        EXCEPT !.fails = step] : step \in FailingSteps}

\* Trees without container.xml or without the package document.
BrokenInputs ==
    {Package(pkg, {PlainTitle}, <<DocItem("a", Ch1)>>, <<ItemRef("a", {})>>,
             TwoChapters, NoOptions) : pkg \in {"no-container", "no-opf"}}

Inputs ==
    StructureInputs \cup AssemblyInputs \cup StyleInputs \cup ImageInputs
    \cup AssetInputs \cup FailureInputs \cup BrokenInputs

\* ------------------------------------------------------------------------
\* State
\* ------------------------------------------------------------------------

VARIABLES
    input,       \* the extracted EPUB tree and the constructor's options
    options,     \* this.options
    pc,          \* the next step of convert, or "returned" / "thrown"
    error,       \* <<>>, or <<e>> once an error e is being thrown
    tempDir,     \* the extraction directory: "none", "live", "cleaned"
    htmlDir,     \* the HTML staging directory: "none", "live", "cleaned"
    browser,     \* the puppeteer browser: "none", "open", "closed"
    metadata,    \* epubData.metadata, <<>> before it is extracted
    manifest,    \* epubData.manifest
    spine,       \* epubData.spine
    cssContent,  \* combinedCss / epubData.cssContent
    fontFiles,   \* epubData.fontFiles
    k,           \* index of the loop being run
    copied,      \* the fs.copy calls made, in order
    html,        \* <<>>, or <<h>>: the html string of createCombinedHtml
    trace,       \* the steps taken by the conversion being run, in order
    earlier      \* the outcomes of the conversions this instance has run

vars ==
    <<input, options, pc, error, tempDir, htmlDir, browser, metadata,
      manifest, spine, cssContent, fontFiles, k, copied, html, trace,
      earlier>>

Only(S) == CHOOSE x \in S : TRUE

\* ------------------------------------------------------------------------
\* constructor
\* ------------------------------------------------------------------------

Constructor(opts) ==
    [format |-> "A4",
     margin |-> IF opts.margin # {} THEN Only(opts.margin) ELSE "0.5",
     includePageNumbers |-> TRUE,
     customCss |-> IF opts.customCss # {} THEN Only(opts.customCss) ELSE "",
     preserveOriginalCss |->
        IF opts.preserveOriginalCss # {} THEN Only(opts.preserveOriginalCss)
        ELSE TRUE]

\* ------------------------------------------------------------------------
\* The file system calls
\* ------------------------------------------------------------------------

\* fs.existsSync(path)
ExistsSync(path) == path \in DOMAIN input.files

\* fs.readFile(path) resolves for a regular file and rejects otherwise
CanRead(path) == ExistsSync(path) /\ input.files[path].kind = "file"

\* An Error: its message, and the idref or the path the message names
ErrorOf(kind, idref, path) == [kind |-> kind, idref |-> idref, path |-> path]

\* ------------------------------------------------------------------------
\* processEpub: metadata, manifest, spine
\* ------------------------------------------------------------------------

OpfDir == Dirname(PathJoin(<<>>, RootfilePath))

Untitled ==
    [text |-> "Untitled", section |-> FALSE, styleClose |-> FALSE,
     imgs |-> <<>>]

ExtractMetadata(title) ==
    [title |-> IF title # {} THEN Only(title) ELSE Untitled]

ExtractManifest(items, opfDir) ==
    [n \in 1..Len(items) |->
        [id |-> items[n].id, href |-> items[n].href,
         mediaType |-> items[n].mediaType, properties |-> "",
         path |-> PathJoin(opfDir, items[n].href)]]

\* manifest.find(item => item.id === idref): the index of the first item
\* with that id, 0 when there is none
Find(man, idref) ==
    LET hits == {n \in 1..Len(man) : man[n].id = idref} IN
    IF hits = {} THEN 0 ELSE CHOOSE n \in hits : \A m \in hits : n <= m

\* Linear with the test itemref.$.linear === 'yes'
LinearOnlyIfYes(itemref) == itemref.linear = {"yes"}

\* itemref.$.linear !== 'no'
Linear(itemref) == itemref.linear # {"no"}

\* ExtractSpine that drops an itemref whose idref is not found
ExtractSpineSkipUnknown(itemrefs, man) ==
    LET found == SelectSeq(itemrefs, LAMBDA r : Find(man, r.idref) # 0) IN
    [ok |-> TRUE,
     error |-> ErrorOf("", "", <<>>),
     spine |-> [n \in 1..Len(found) |->
         LET item == man[Find(man, found[n].idref)] IN
         [idref |-> found[n].idref, linear |-> Linear(found[n]),
          href |-> item.href, path |-> item.path]]]

\* The map of extractSpine: it throws at the first itemref whose idref is
\* not found, and otherwise returns one spine item per itemref.
ExtractSpine(itemrefs, man) ==
    LET missing == {n \in 1..Len(itemrefs) : Find(man, itemrefs[n].idref) = 0}
        first == CHOOSE n \in missing : \A m \in missing : n <= m
    IN  IF missing # {}
        THEN [ok |-> FALSE,
              error |-> ErrorOf("spine item not found in manifest",
                                itemrefs[first].idref, <<>>),
              spine |-> <<>>]
        ELSE [ok |-> TRUE,
              error |-> ErrorOf("", "", <<>>),
              spine |-> [n \in 1..Len(itemrefs) |->
                  LET item == man[Find(man, itemrefs[n].idref)] IN
                  [idref |-> itemrefs[n].idref,
                   linear |-> Linear(itemrefs[n]),
                   href |-> item.href, path |-> item.path]]]

\* ------------------------------------------------------------------------
\* processCssFiles
\* ------------------------------------------------------------------------

Chunk(kind, path, text, urls) ==
    [kind |-> kind, path |-> path, text |-> text, urls |-> urls]

\* css + '\n' for the text read from path
FileChunk(path) == Chunk("file", path, "", input.files[path].urls)

CustomChunk(text) == Chunk("custom", <<>>, text, <<>>)

\* PageMarginRule with the default margin written in the rule
PageMarginRuleFixed(margin) == Chunk("@page", <<>>, "0.5", <<>>)

\* @page { margin: ${margin}in; }
PageMarginRule(margin) == Chunk("@page", <<>>, margin, <<>>)

\* body { margin: 0; padding: 0; }
BodyRule == Chunk("body", <<>>, "margin: 0; padding: 0", <<>>)

\* .page-break { page-break-after: always; }
PageBreakRule == Chunk(".page-break", <<>>, "page-break-after: always", <<>>)

\* item => item.mediaType.includes('css')
IsCssItem(item) == IncludesCss(item.mediaType)

\* manifest.filter(...) of the stylesheet items
CssFiles(man) == SelectSeq(man, IsCssItem)

\* AddCustomAndPdfCss with the custom CSS added after the PDF-specific CSS
AddPdfCssThenCustom(css, opts) ==
    (css \o <<PageMarginRule(opts.margin), BodyRule>>)
    \o (IF opts.customCss # "" THEN <<CustomChunk(opts.customCss)>> ELSE <<>>)

\* the statements of processCssFiles after the loop
AddCustomAndPdfCss(css, opts) ==
    (css \o (IF opts.customCss # "" THEN <<CustomChunk(opts.customCss)>>
             ELSE <<>>))
    \o <<PageMarginRule(opts.margin), BodyRule>>

IsFontItem(item) ==
    \/ IncludesFont(item.mediaType)
    \/ IncludesOpentype(item.mediaType)
    \/ EndsWithTtfOrOtf(item.href)

FontFiles(man) == SelectSeq(man, IsFontItem)

IsImageItem(item) == StartsWithImage(item.mediaType)

ImageFiles(man) == SelectSeq(man, IsImageItem)

\* ------------------------------------------------------------------------
\* createCombinedHtml
\* ------------------------------------------------------------------------

\* processFontPaths: every url(...) becomes url('assets/<basename>')
ProcessFontPaths(css) ==
    [n \in 1..Len(css) |->
        [css[n] EXCEPT !.urls =
            [u \in 1..Len(@) |-> AssetRef(Basename(@[u]))]]]

Img(orig, src) == [orig |-> orig, src |-> src]

\* RewriteSrc with the guard of the final pass
RewriteSrcUnlessAssets(src) ==
    IF src # <<>> /\ ~StartsWithAssets(src) THEN AssetRef(Basename(src))
    ELSE src

\* the per-document rewrite of an img src
RewriteSrc(src) == IF src # <<>> THEN AssetRef(Basename(src)) ELSE src

\* the rewrite of an img src in the final pass
SweepSrc(src) ==
    IF src # <<>> /\ ~StartsWithAssets(src) THEN AssetRef(Basename(src))
    ELSE src

\* The html string before the loop.  An img element brought by the title
\* text is no element of any content document; its src is as written.
Shell(meta, css) ==
    [title |-> meta.title,
     style |-> ProcessFontPaths(css),
     pageBreakCssInTitle |-> FALSE,
     shellImgs |-> [n \in 1..Len(meta.title.imgs) |->
                       Img(meta.title.imgs[n], meta.title.imgs[n])],
     body |-> <<>>]

PageBreak ==
    [type |-> "page-break", idx |-> 0, path |-> <<>>, section |-> FALSE,
     imgs |-> <<>>]

\* $('body').html() of the document at spine[idx], after the rewrite
BodyContent(idx, path) ==
    LET doc == input.files[path] IN
    [type |-> "content", idx |-> idx, path |-> path, section |-> doc.section,
     imgs |-> [n \in 1..Len(doc.imgs) |->
                  Img(doc.imgs[n], RewriteSrc(doc.imgs[n]))]]

\* html.includes('</section>')
IncludesSectionEnd(h) ==
    h.title.section \/ \E n \in 1..Len(h.body) : h.body[n].section

\* AppendDocument with the document put in front of the body
AppendDocumentInFront(h, idx, path) ==
    [h EXCEPT !.body =
        <<BodyContent(idx, path)>>
        \o ((IF IncludesSectionEnd(h) THEN <<PageBreak>> ELSE <<>>) \o @)]

\* the body of the loop for a document that is appended
AppendDocument(h, idx, path) ==
    [h EXCEPT !.body =
        (@ \o (IF IncludesSectionEnd(h) THEN <<PageBreak>> ELSE <<>>))
        \o <<BodyContent(idx, path)>>]

\* html.replace('</style>', ...): the first "</style>" of the string is
\* the one in the title text when there is one.
AddPageBreakCss(h) ==
    IF h.title.styleClose THEN [h EXCEPT !.pageBreakCssInTitle = TRUE]
    ELSE [h EXCEPT !.style = Append(@, PageBreakRule)]

SweepImgs(imgs) ==
    [n \in 1..Len(imgs) |-> Img(imgs[n].orig, SweepSrc(imgs[n].src))]

\* the final pass over every img element of the combined document
FixImagePaths(h) ==
    [h EXCEPT !.shellImgs = SweepImgs(@),
              !.body = [n \in 1..Len(@) |->
                          [@[n] EXCEPT !.imgs = SweepImgs(@)]]]

\* ------------------------------------------------------------------------
\* convert, step by step
\* ------------------------------------------------------------------------

\* Then with processCssFiles awaited after the loop over the spine
ThenCssLast(p) ==
    CASE p = "createTempDirectory" -> "extractEpub"
      [] p = "extractEpub" -> "locatePackage"
      [] p = "locatePackage" -> "extractMetadata"
      [] p = "extractMetadata" -> "extractManifest"
      [] p = "extractManifest" -> "extractSpine"
      [] p = "extractSpine" -> "selectFontFiles"
      [] p = "selectFontFiles" -> "createHtmlTempDir"
      [] p = "createHtmlTempDir" -> "copyFonts"
      [] p = "copyFonts" -> "copyImages"
      [] p = "copyImages" -> "addContent"
      [] p = "addContent" -> "processCssFiles"
      [] p = "processCssFiles" -> "launch"
      [] p = "launch" -> "newPage"
      [] p = "newPage" -> "goto"
      [] p = "goto" -> "pdf"
      [] p = "pdf" -> "closeBrowser"
      [] p = "closeBrowser" -> "cleanupHtml"
      [] p = "cleanupHtml" -> "cleanupTemp"

\* The order of the statements of convert, processEpub, generatePdf and
\* createCombinedHtml: the step that follows step p when p completes.
Then(p) ==
    CASE p = "createTempDirectory" -> "extractEpub"
      [] p = "extractEpub" -> "locatePackage"
      [] p = "locatePackage" -> "extractMetadata"
      [] p = "extractMetadata" -> "extractManifest"
      [] p = "extractManifest" -> "extractSpine"
      [] p = "extractSpine" -> "processCssFiles"
      [] p = "processCssFiles" -> "selectFontFiles"
      [] p = "selectFontFiles" -> "createHtmlTempDir"
      [] p = "createHtmlTempDir" -> "copyFonts"
      [] p = "copyFonts" -> "copyImages"
      [] p = "copyImages" -> "addContent"
      [] p = "addContent" -> "launch"
      [] p = "launch" -> "newPage"
      [] p = "newPage" -> "goto"
      [] p = "goto" -> "pdf"
      [] p = "pdf" -> "closeBrowser"
      [] p = "closeBrowser" -> "cleanupHtml"
      [] p = "cleanupHtml" -> "cleanupTemp"

Log(event) == trace' = Append(trace, event)

\* The finally block that runs first when step p throws: the one of
\* the inner try of generatePdf for the calls on the page, the one of its
\* outer try for puppeteer.launch, and the one of convert for extractEpub,
\* processEpub and createCombinedHtml, which generatePdf awaits before it
\* enters its outer try.
Finally(p) ==
    IF p \in {"newPage", "goto", "pdf"} THEN "closeBrowser"
    ELSE IF p = "launch" THEN "cleanupHtml"
    ELSE "cleanupTemp"

\* An error thrown by the step being run
Throw(e) ==
    /\ error' = <<[step |-> pc, kind |-> e.kind, idref |-> e.idref,
                   path |-> e.path]>>
    /\ pc' = Finally(pc)

\* the awaited call of the step being run rejects
Rejects == input.fails = pc

Rejected == ErrorOf("rejected", "", <<>>)

Init ==
    /\ input \in Inputs
    /\ options = Constructor(input.opts)
    /\ pc = "createTempDirectory"
    /\ error = <<>>
    /\ tempDir = "none"
    /\ htmlDir = "none"
    /\ browser = "none"
    /\ metadata = <<>>
    /\ manifest = <<>>
    /\ spine = <<>>
    /\ cssContent = <<>>
    /\ fontFiles = <<>>
    /\ k = 1
    /\ copied = <<>>
    /\ html = <<>>
    /\ trace = <<>>
    /\ earlier = <<>>

CreateTempDirectory ==
    /\ pc = "createTempDirectory"
    /\ tempDir' = "live"
    /\ pc' = Then(pc)
    /\ Log("tempDir")
    /\ UNCHANGED <<earlier, input, options, error, htmlDir, browser, metadata,
                   manifest, spine, cssContent, fontFiles, k, copied, html>>

ExtractEpub ==
    /\ pc = "extractEpub"
    /\ IF Rejects
       THEN Throw(Rejected) /\ Log("rejected")
       ELSE pc' = Then(pc) /\ Log("extracted") /\ UNCHANGED error
    /\ UNCHANGED <<earlier, input, options, tempDir, htmlDir, browser, metadata,
                   manifest, spine, cssContent, fontFiles, k, copied, html>>

\* container.xml and the package document are found and parsed
LocatePackage ==
    /\ pc = "locatePackage"
    /\ IF input.package = "no-container"
       THEN Throw(ErrorOf("container.xml not found", "", <<>>))
       ELSE IF input.package = "no-opf"
       THEN Throw(ErrorOf("OPF file not found", "", RootfilePath))
       ELSE pc' = Then(pc) /\ UNCHANGED error
    /\ Log("located")
    /\ UNCHANGED <<earlier, input, options, tempDir, htmlDir, browser, metadata,
                   manifest, spine, cssContent, fontFiles, k, copied, html>>

ExtractMetadataStep ==
    /\ pc = "extractMetadata"
    /\ metadata' = <<ExtractMetadata(input.title)>>
    /\ pc' = Then(pc)
    /\ Log("metadata")
    /\ UNCHANGED <<earlier, input, options, error, tempDir, htmlDir, browser,
                   manifest, spine, cssContent, fontFiles, k, copied, html>>

ExtractManifestStep ==
    /\ pc = "extractManifest"
    /\ manifest' = ExtractManifest(input.items, OpfDir)
    /\ pc' = Then(pc)
    /\ Log("manifest")
    /\ UNCHANGED <<earlier, input, options, error, tempDir, htmlDir, browser,
                   metadata, spine, cssContent, fontFiles, k, copied, html>>

ExtractSpineStep ==
    /\ pc = "extractSpine"
    /\ LET r == ExtractSpine(input.itemrefs, manifest) IN
       IF r.ok
       THEN /\ spine' = r.spine
            /\ pc' = Then(pc)
            /\ UNCHANGED error
       ELSE /\ Throw(r.error)
            /\ UNCHANGED spine
    /\ Log("spine")
    /\ k' = 1
    /\ UNCHANGED <<earlier, input, options, tempDir, htmlDir, browser, metadata,
                   manifest, cssContent, fontFiles, copied, html>>

\* One turn of the loop of processCssFiles, entered only when
\* preserveOriginalCss is set.
ReadCssFile ==
    /\ pc = "processCssFiles"
    /\ options.preserveOriginalCss
    /\ k <= Len(CssFiles(manifest))
    /\ LET path == CssFiles(manifest)[k].path IN
       IF ~ExistsSync(path)
       THEN /\ k' = k + 1
            /\ UNCHANGED <<cssContent, pc, error>>
       ELSE IF CanRead(path)
       THEN /\ cssContent' = Append(cssContent, FileChunk(path))
            /\ k' = k + 1
            /\ UNCHANGED <<pc, error>>
       ELSE /\ Throw(ErrorOf("EISDIR", "", path))
            /\ UNCHANGED <<cssContent, k>>
    /\ Log("readCss")
    /\ UNCHANGED <<earlier, input, options, tempDir, htmlDir, browser, metadata,
                   manifest, spine, fontFiles, copied, html>>

\* FinishCss with the custom CSS and the generated rules stored back into
\* this.options.customCss
FinishCssIntoOptions ==
    /\ pc = "processCssFiles"
    /\ ~options.preserveOriginalCss \/ k > Len(CssFiles(manifest))
    /\ cssContent' = AddCustomAndPdfCss(cssContent, options)
    /\ options' = [options EXCEPT !.customCss = "custom + @page + body"]
    /\ pc' = Then(pc)
    /\ Log("css")
    /\ UNCHANGED <<earlier, input, error, tempDir, htmlDir, browser,
                   metadata, manifest, spine, fontFiles, k, copied, html>>

\* The rest of processCssFiles
FinishCss ==
    /\ pc = "processCssFiles"
    /\ ~options.preserveOriginalCss \/ k > Len(CssFiles(manifest))
    /\ cssContent' = AddCustomAndPdfCss(cssContent, options)
    /\ pc' = Then(pc)
    /\ Log("css")
    /\ UNCHANGED <<earlier, input, options, error, tempDir, htmlDir, browser,
                   metadata, manifest, spine, fontFiles, k, copied, html>>

SelectFontFiles ==
    /\ pc = "selectFontFiles"
    /\ fontFiles' = FontFiles(manifest)
    /\ pc' = Then(pc)
    /\ Log("fonts")
    /\ UNCHANGED <<earlier, input, options, error, tempDir, htmlDir, browser,
                   metadata, manifest, spine, cssContent, k, copied, html>>

\* tmpPromise and fs.mkdir(assetsDir) of createCombinedHtml
CreateHtmlTempDir ==
    /\ pc = "createHtmlTempDir"
    /\ htmlDir' = "live"
    /\ k' = 1
    /\ pc' = Then(pc)
    /\ Log("htmlDir")
    /\ UNCHANGED <<earlier, input, options, error, tempDir, browser, metadata,
                   manifest, spine, cssContent, fontFiles, copied, html>>

\* fs.copy(item.path, assets/<basename of href>); it rejects when the
\* source does not exist
Copy(item) ==
    IF ExistsSync(item.path)
    THEN /\ copied' = Append(copied, [source |-> item.path,
                                      dest |-> AssetRef(Basename(item.href))])
         /\ k' = k + 1
         /\ UNCHANGED <<pc, error>>
    ELSE /\ Throw(ErrorOf("ENOENT", "", item.path))
         /\ UNCHANGED <<copied, k>>

CopyFont ==
    /\ pc = "copyFonts"
    /\ k <= Len(fontFiles)
    /\ Copy(fontFiles[k])
    /\ Log("copy")
    /\ UNCHANGED <<earlier, input, options, tempDir, htmlDir, browser, metadata,
                   manifest, spine, cssContent, fontFiles, html>>

FontsCopied ==
    /\ pc = "copyFonts"
    /\ k > Len(fontFiles)
    /\ k' = 1
    /\ pc' = Then(pc)
    /\ Log("fontsCopied")
    /\ UNCHANGED <<earlier, input, options, error, tempDir, htmlDir, browser,
                   metadata, manifest, spine, cssContent, fontFiles, copied,
                   html>>

CopyImage ==
    /\ pc = "copyImages"
    /\ k <= Len(ImageFiles(manifest))
    /\ Copy(ImageFiles(manifest)[k])
    /\ Log("copy")
    /\ UNCHANGED <<earlier, input, options, tempDir, htmlDir, browser, metadata,
                   manifest, spine, cssContent, fontFiles, html>>

\* The image loop ends and the html string is started
StartHtml ==
    /\ pc = "copyImages"
    /\ k > Len(ImageFiles(manifest))
    /\ html' = <<Shell(metadata[1], cssContent)>>
    /\ k' = 1
    /\ pc' = Then(pc)
    /\ Log("shell")
    /\ UNCHANGED <<earlier, input, options, error, tempDir, htmlDir, browser,
                   metadata, manifest, spine, cssContent, fontFiles, copied>>

\* IsAdded without the fs.existsSync test
IsAddedIfLinear(item) == item.linear

\* spineItem.linear && fs.existsSync(spineItem.path)
IsAdded(item) == item.linear /\ ExistsSync(item.path)

\* One turn of the loop over epubData.spine
AddContent ==
    /\ pc = "addContent"
    /\ k <= Len(spine)
    /\ LET item == spine[k] IN
       IF ~IsAdded(item)
       THEN /\ k' = k + 1
            /\ UNCHANGED <<html, pc, error>>
       ELSE IF CanRead(item.path)
       THEN /\ html' = <<AppendDocument(html[1], k, item.path)>>
            /\ k' = k + 1
            /\ UNCHANGED <<pc, error>>
       ELSE /\ Throw(ErrorOf("EISDIR", "", item.path))
            /\ UNCHANGED <<html, k>>
    /\ Log("content")
    /\ UNCHANGED <<earlier, input, options, tempDir, htmlDir, browser, metadata,
                   manifest, spine, cssContent, fontFiles, copied>>

\* The statements after the loop: the closing tags, the page-break CSS,
\* the final pass over the images, and the write of combined.html
FinishHtml ==
    /\ pc = "addContent"
    /\ k > Len(spine)
    /\ html' = <<FixImagePaths(AddPageBreakCss(html[1]))>>
    /\ pc' = Then(pc)
    /\ Log("html")
    /\ UNCHANGED <<earlier, input, options, error, tempDir, htmlDir, browser,
                   metadata, manifest, spine, cssContent, fontFiles, k,
                   copied>>

Launch ==
    /\ pc = "launch"
    /\ IF Rejects
       THEN Throw(Rejected) /\ Log("rejected") /\ UNCHANGED browser
       ELSE /\ browser' = "open"
            /\ pc' = Then(pc)
            /\ Log("launch")
            /\ UNCHANGED error
    /\ UNCHANGED <<earlier, input, options, tempDir, htmlDir, metadata,
                   manifest, spine, cssContent, fontFiles, k, copied, html>>

NewPage ==
    /\ pc = "newPage"
    /\ IF Rejects
       THEN Throw(Rejected) /\ Log("rejected")
       ELSE pc' = Then(pc) /\ Log("page") /\ UNCHANGED error
    /\ UNCHANGED <<earlier, input, options, tempDir, htmlDir, browser, metadata,
                   manifest, spine, cssContent, fontFiles, k, copied, html>>

Goto ==
    /\ pc = "goto"
    /\ IF Rejects
       THEN Throw(Rejected) /\ Log("rejected")
       ELSE pc' = Then(pc) /\ Log("goto") /\ UNCHANGED error
    /\ UNCHANGED <<earlier, input, options, tempDir, htmlDir, browser, metadata,
                   manifest, spine, cssContent, fontFiles, k, copied, html>>

Pdf ==
    /\ pc = "pdf"
    /\ IF Rejects
       THEN Throw(Rejected) /\ Log("rejected")
       ELSE pc' = Then(pc) /\ Log("pdf") /\ UNCHANGED error
    /\ UNCHANGED <<earlier, input, options, tempDir, htmlDir, browser, metadata,
                   manifest, spine, cssContent, fontFiles, k, copied, html>>

CloseBrowser ==
    /\ pc = "closeBrowser"
    /\ browser' = "closed"
    /\ pc' = Then(pc)
    /\ Log("browserClosed")
    /\ UNCHANGED <<earlier, input, options, error, tempDir, htmlDir, metadata,
                   manifest, spine, cssContent, fontFiles, k, copied, html>>

CleanupHtml ==
    /\ pc = "cleanupHtml"
    /\ htmlDir' = "cleaned"
    /\ pc' = Then(pc)
    /\ Log("htmlDirCleaned")
    /\ UNCHANGED <<earlier, input, options, error, tempDir, browser, metadata,
                   manifest, spine, cssContent, fontFiles, k, copied, html>>

\* The finally block of convert, then the return or the rethrow
CleanupTemp ==
    /\ pc = "cleanupTemp"
    /\ tempDir' = "cleaned"
    /\ pc' = IF error = <<>> THEN "returned" ELSE "thrown"
    /\ Log("tempDirCleaned")
    /\ UNCHANGED <<earlier, input, options, error, htmlDir, browser, metadata,
                   manifest, spine, cssContent, fontFiles, k, copied, html>>

Next ==
    \/ CreateTempDirectory
    \/ ExtractEpub
    \/ LocatePackage
    \/ ExtractMetadataStep
    \/ ExtractManifestStep
    \/ ExtractSpineStep
    \/ ReadCssFile
    \/ FinishCss
    \/ SelectFontFiles
    \/ CreateHtmlTempDir
    \/ CopyFont
    \/ FontsCopied
    \/ CopyImage
    \/ StartHtml
    \/ AddContent
    \/ FinishHtml
    \/ Launch
    \/ NewPage
    \/ Goto
    \/ Pdf
    \/ CloseBrowser
    \/ CleanupHtml
    \/ CleanupTemp

Spec == Init /\ [][Next]_vars

\* A second call of convert on the same instance with the same input, after
\* the first has returned or thrown.  The locals of convert, processEpub,
\* generatePdf and createCombinedHtml are those of the new call; this.options
\* is the only state of the instance.
ConvertAgain ==
    /\ pc \in {"returned", "thrown"}
    /\ earlier = <<>>
    /\ earlier' = <<[html |-> html, error |-> error]>>
    /\ pc' = "createTempDirectory"
    /\ error' = <<>>
    /\ tempDir' = "none"
    /\ htmlDir' = "none"
    /\ browser' = "none"
    /\ metadata' = <<>>
    /\ manifest' = <<>>
    /\ spine' = <<>>
    /\ cssContent' = <<>>
    /\ fontFiles' = <<>>
    /\ k' = 1
    /\ copied' = <<>>
    /\ html' = <<>>
    /\ trace' = <<>>
    /\ UNCHANGED <<input, options>>

NextAgain == Next \/ ConvertAgain

\* Two conversions in a row on one instance
SpecAgain == Init /\ [][NextAgain]_vars

\* ------------------------------------------------------------------------
\* Properties
\* ------------------------------------------------------------------------

Happened(event) == \E n \in 1..Len(trace) : trace[n] = event

\* combined.html has been assembled and written
HtmlWritten == Happened("html")

\* the elements of S in increasing order
Ascending(S) ==
    [j \in 1..Cardinality(S) |->
        CHOOSE n \in S : Cardinality({m \in S : m < n}) = j - 1]

IsContent(element) == element.type = "content"

\* the content documents of the assembled body, in body order
Contents == SelectSeq(html[1].body, IsContent)

\* the file read for spine item n is a regular file
Readable(n) ==
    /\ spine[n].path \in DOMAIN input.files
    /\ input.files[spine[n].path].kind = "file"

\* C1: when every linear spine item has a readable content file, the body
\* of the assembled document holds the body content of each linear spine
\* item exactly once, in the order of the itemrefs of the spine.
C1_LinearContentOnceInOrder ==
    (HtmlWritten /\ \A n \in 1..Len(spine) : spine[n].linear => Readable(n))
    => LET lin == Ascending({n \in 1..Len(spine) : spine[n].linear}) IN
       /\ Len(Contents) = Len(lin)
       /\ \A j \in 1..Len(lin) :
            /\ Contents[j].idx = lin[j]
            /\ Contents[j].path = spine[lin[j]].path
            /\ Contents[j].section = input.files[spine[lin[j]].path].section
            /\ [m \in 1..Len(Contents[j].imgs) |-> Contents[j].imgs[m].orig]
                    = input.files[spine[lin[j]].path].imgs

\* two linear items with different readable documents have been assembled
C1_Witness ==
    /\ HtmlWritten
    /\ Len(spine) = 2
    /\ spine[1].linear /\ spine[2].linear
    /\ Readable(1) /\ Readable(2)
    /\ spine[1].path # spine[2].path
    /\ Len(Contents) = 2

\* C2: a spine item is non-linear exactly when its itemref carries
\* linear="no", and the content of a non-linear spine item is never
\* appended to the body of the assembled document.
C2_NonLinearNeverAppended ==
    /\ \A n \in 1..Len(spine) :
          spine[n].linear <=> "no" \notin input.itemrefs[n].linear
    /\ html # <<>> =>
          \A j \in 1..Len(html[1].body) :
              IsContent(html[1].body[j]) =>
                  "no" \notin input.itemrefs[html[1].body[j].idx].linear

\* a spine with a readable linear="no" item, an item with another value of
\* the attribute and an item without it has been assembled
C2_Witness ==
    /\ HtmlWritten
    /\ Len(spine) = 2
    /\ input.itemrefs[1].linear = {"no"} /\ Readable(1)
    /\ input.itemrefs[2].linear = {"yes"} /\ Readable(2)
    /\ Len(Contents) = 1

\* C3: a page-break marker stands between every two consecutive appended
\* documents and never before the first: with k >= 1 documents appended
\* the body is document, marker, document, ..., document (k - 1 markers),
\* whatever the documents contain.
C3_MarkerBetweenDocuments ==
    (HtmlWritten /\ Len(Contents) >= 1)
    => /\ Len(html[1].body) = 2 * Len(Contents) - 1
       /\ \A j \in 1..Len(html[1].body) :
            IsContent(html[1].body[j]) <=> j % 2 = 1

\* every img element of the combined document: those of the content
\* documents, and those that entered it outside them
ContentImgs ==
    UNION {{html[1].body[j].imgs[m] : m \in 1..Len(html[1].body[j].imgs)} :
              j \in 1..Len(html[1].body)}

ShellImgs == {html[1].shellImgs[m] : m \in 1..Len(html[1].shellImgs)}

\* a src of the form assets/<name>: "assets", one "/" and one more segment
HasAssetForm(src) == Len(src) = 2 /\ src[1] = "assets"

\* C4 as stated: after the per-document rewrite and the final pass every
\* img src of the assembled document has the form assets/<basename>,
\* including a src that is empty, one that begins with assets/ and has
\* further segments, and one the per-document pass did not touch.
C4_EverySrcInAssets ==
    HtmlWritten => \A img \in ContentImgs \cup ShellImgs : HasAssetForm(img.src)

\* C4 as amended: a non-empty src of an img element of a content document
\* becomes assets/<basename of the src>; an empty src stays empty; an img
\* element that is in the combined document without coming from a content
\* document body keeps its src when that src is empty or begins with
\* assets/, and gets assets/<basename> otherwise.
C4_SrcRewrittenUnlessEmptyOrShell ==
    HtmlWritten =>
        /\ \A img \in ContentImgs :
              img.src = IF img.orig = <<>> THEN <<>>
                        ELSE <<"assets", Basename(img.orig)>>
        /\ \A img \in ShellImgs :
              img.src = IF img.orig = <<>>
                           \/ (Len(img.orig) >= 2 /\ img.orig[1] = "assets")
                        THEN img.orig
                        ELSE <<"assets", Basename(img.orig)>>

\* the assembled document holds an img of a content document whose src
\* began with assets/ and had further segments, and an img from the title
C4_Witness ==
    /\ HtmlWritten
    /\ \E img \in ContentImgs :
          /\ img.orig = <<"assets", "sub", "p.png">>
          /\ img.src = <<"assets", "p.png">>
    /\ ShellImgs # {}

\* the ids of the items of the manifest section of the package document
HasDuplicateIds ==
    \E m, n \in 1..Len(input.items) :
        m # n /\ input.items[m].id = input.items[n].id

\* C5 as stated: when two manifest entries share an id, building the
\* package model fails with a DuplicateManifestId error and no model is
\* produced; in a model that is produced the manifest ids are pairwise
\* distinct.
C5_DuplicateIdsRejected ==
    /\ (HasDuplicateIds /\ Happened("manifest"))
          => /\ manifest = <<>>
             /\ error # <<>>
             /\ error[1].kind = "DuplicateManifestId"
    /\ \A m, n \in 1..Len(manifest) :
          m # n => manifest[m].id # manifest[n].id

\* an itemref of the package document names an id no manifest item has
Unresolved(n) ==
    \A m \in 1..Len(input.items) :
        input.items[m].id # input.itemrefs[n].idref

\* C6: when an itemref has an idref without a matching manifest id,
\* building the package model fails with an error naming that idref and
\* the conversion aborts: no spine is returned, no HTML is assembled and
\* the rendering engine is never invoked; and every spine item of a model
\* has href and path of a manifest item with the same id.
C6_BrokenSpineAborts ==
    /\ (\E n \in 1..Len(input.itemrefs) : Unresolved(n))
          => /\ spine = <<>>
             /\ html = <<>>
             /\ browser = "none"
             /\ ~Happened("launch") /\ ~Happened("goto") /\ ~Happened("pdf")
             /\ pc # "returned"
             /\ Happened("spine")
                   => /\ error # <<>>
                      /\ error[1].kind = "spine item not found in manifest"
                      /\ \E n \in 1..Len(input.itemrefs) :
                            /\ Unresolved(n)
                            /\ error[1].idref = input.itemrefs[n].idref
                            /\ \A m \in 1..(n - 1) : ~Unresolved(m)
    /\ \A n \in 1..Len(spine) :
          \E m \in 1..Len(manifest) :
              /\ manifest[m].id = spine[n].idref
              /\ manifest[m].href = spine[n].href
              /\ manifest[m].path = spine[n].path

\* a conversion has been abandoned for the second itemref of a spine
\* whose first itemref resolves
C6_Witness ==
    /\ pc = "thrown"
    /\ Len(input.itemrefs) = 2
    /\ ~Unresolved(1)
    /\ Unresolved(2)
    /\ error[1].idref = input.itemrefs[2].idref

\* the stylesheet items of the manifest section, in manifest order
IsStylesheet(item) == item.mediaType = "text/css"

StylesheetItems == SelectSeq(input.items, IsStylesheet)

StylesheetPath(item) == <<"OEBPS">> \o item.href

\* the engine-generated rules, as they are written in the stylesheet
MarginRuleOf(margin) ==
    [kind |-> "@page", path |-> <<>>, text |-> margin, urls |-> <<>>]

BodyResetRule ==
    [kind |-> "body", path |-> <<>>, text |-> "margin: 0; padding: 0",
     urls |-> <<>>]

BreakRule ==
    [kind |-> ".page-break", path |-> <<>>,
     text |-> "page-break-after: always", urls |-> <<>>]

\* zero stylesheet items, preserveOriginalCss = true, no custom CSS, margin 1
C7_Case ==
    /\ StylesheetItems = <<>>
    /\ options.preserveOriginalCss
    /\ options.customCss = ""
    /\ input.opts.margin = {"1"}

\* C7 as stated: in that case the stylesheet inlined in the assembled
\* document holds the page-margin rule (margin 1in) and the page-break
\* rule, and no other rule.
C7_OnlyMarginAndPageBreak ==
    (HtmlWritten /\ C7_Case) => html[1].style = <<MarginRuleOf("1"), BreakRule>>

\* C7 as amended: in that case the inlined stylesheet holds the page-margin
\* rule (margin 1in), the rule that sets margin and padding of body to 0,
\* and the page-break rule, in this order and no other rule; the page-break
\* rule is put before the first "</style>" of the document, which is the
\* one of the title when the title text contains "</style>".
C7_MarginBodyAndPageBreak ==
    (HtmlWritten /\ C7_Case) =>
        html[1].style =
            IF metadata[1].title.styleClose
            THEN <<MarginRuleOf("1"), BodyResetRule>>
            ELSE <<MarginRuleOf("1"), BodyResetRule, BreakRule>>

\* such a document has been assembled for a title without "</style>"
C7_Witness ==
    /\ HtmlWritten
    /\ C7_Case
    /\ ~metadata[1].title.styleClose
    /\ Len(html[1].style) = 3

\* processCssFiles has returned
CssDone == Happened("css")

\* what the aggregated stylesheet is to be, given the stylesheet items
\* whose text is taken
AggregateOf(items) ==
    ([n \in 1..Len(items) |->
        [kind |-> "file", path |-> StylesheetPath(items[n]), text |-> "",
         urls |-> input.files[StylesheetPath(items[n])].urls]]
     \o (IF options.customCss # ""
         THEN <<[kind |-> "custom", path |-> <<>>,
                 text |-> options.customCss, urls |-> <<>>]>>
         ELSE <<>>))
    \o <<MarginRuleOf(options.margin), BodyResetRule>>

IsReadableStylesheet(item) ==
    /\ StylesheetPath(item) \in DOMAIN input.files
    /\ input.files[StylesheetPath(item)].kind = "file"

ExistingStylesheet(item) == StylesheetPath(item) \in DOMAIN input.files

Precedes(a, b) ==
    \A j \in 1..Len(trace) :
        trace[j] = b => \E i \in 1..(j - 1) : trace[i] = a

AssemblySteps == {"shell", "content", "html"}

EngineSteps == {"launch", "page", "goto", "pdf"}

\* C9: in every execution of convert, manifest resolution completes before
\* spine linearization starts; spine linearization and style aggregation
\* both complete before HTML assembly begins; and every font and image
\* copy has completed before the rendering engine is invoked.
C9_PhasesOrdered ==
    /\ Precedes("manifest", "spine")
    /\ \A e \in AssemblySteps : Precedes("spine", e) /\ Precedes("css", e)
    /\ \A j \in 1..Len(trace) :
          trace[j] \in EngineSteps =>
              /\ \A i \in 1..Len(trace) : trace[i] = "copy" => i < j
              /\ \A m \in 1..Len(manifest) :
                    (IsFontItem(manifest[m]) \/ IsImageItem(manifest[m]))
                    => \E c \in 1..Len(copied) :
                          copied[c].source = manifest[m].path

\* a conversion with a font and an image to copy has returned
C9_Witness ==
    /\ pc = "returned"
    /\ Len(copied) = 2
    /\ Happened("pdf")

\* C10 as stated: a linear spine item whose content file cannot be read is
\* skipped without an error, and the document holds every other linear
\* item's content in spine order.
C10_UnreadableContentSkipped ==
    /\ ~(error # <<>> /\ error[1].step = "addContent")
    /\ HtmlWritten =>
          LET kept == Ascending({n \in 1..Len(spine) :
                                    spine[n].linear /\ Readable(n)})
          IN  [j \in 1..Len(Contents) |-> Contents[j].idx] = kept

\* C10 as amended: a linear spine item whose content file does not exist
\* is skipped without an error, and the document holds the content of
\* every other linear item in spine order; a linear spine item whose path
\* exists and cannot be read makes the conversion fail.
C10_MissingContentSkipped ==
    /\ (error # <<>> /\ error[1].step = "addContent")
          => /\ error[1].path \in DOMAIN input.files
             /\ input.files[error[1].path].kind # "file"
    /\ HtmlWritten =>
          LET kept == Ascending({n \in 1..Len(spine) :
                         spine[n].linear
                         /\ spine[n].path \in DOMAIN input.files})
          IN  /\ [j \in 1..Len(Contents) |-> Contents[j].idx] = kept
              /\ \A j \in 1..Len(kept) : Readable(kept[j])

\* a document has been assembled from a spine whose first linear item has
\* no file and whose second linear item has one
C10_Witness ==
    /\ HtmlWritten
    /\ Len(spine) = 2
    /\ spine[1].linear /\ spine[1].path \notin DOMAIN input.files
    /\ spine[2].linear /\ Readable(2)
    /\ Len(Contents) = 1
    /\ Contents[1].idx = 2

\* the manifest items of the package document that are a font or an image
IsAsset(item) ==
    \/ item.mediaType \in {"image/png", "application/x-font-ttf",
                           "application/vnd.ms-opentype"}
    \/ item.href[Len(item.href)] \in {"f.ttf", "g.otf"}

AssetsAt(path) ==
    {m \in 1..Len(input.items) :
        IsAsset(input.items[m]) /\ <<"OEBPS">> \o input.items[m].href = path}

CopiesOf(path) == {c \in 1..Len(copied) : copied[c].source = path}

\* both copy loops of createCombinedHtml have run to their end
CopiesDone == Happened("shell")

\* C12: once the asset copies of a conversion are done, fs.copy has been
\* called exactly once for every manifest item that is a font or an image
\* (an image item whose href ends in ".ttf" or ".otf" included), each time
\* with destination assets/<basename of href>, and for no other item.
C12_EachAssetCopiedOnce ==
    CopiesDone =>
        /\ \A m \in 1..Len(input.items) :
              LET path == <<"OEBPS">> \o input.items[m].href IN
              Cardinality(CopiesOf(path)) = Cardinality(AssetsAt(path))
        /\ \A c \in 1..Len(copied) :
              /\ AssetsAt(copied[c].source) # {}
              /\ copied[c].dest =
                    <<"assets", copied[c].source[Len(copied[c].source)]>>

\* convert has returned or thrown
Exited == pc \in {"returned", "thrown"}

\* C13: when convert has returned or thrown, whatever step failed, the
\* extraction directory and the HTML staging directory created by the
\* conversion have been cleaned up and a launched browser has been closed.
C13_NothingLeftBehind ==
    Exited =>
        /\ tempDir \in {"none", "cleaned"}
        /\ htmlDir \in {"none", "cleaned"}
        /\ browser \in {"none", "closed"}

\* this.options as the constructor built it
OptionsAsConstructed ==
    [format |-> "A4",
     margin |-> IF input.opts.margin = {} THEN "0.5"
                ELSE CHOOSE m \in input.opts.margin : TRUE,
     includePageNumbers |-> TRUE,
     customCss |-> IF input.opts.customCss = {} THEN ""
                   ELSE CHOOSE c \in input.opts.customCss : TRUE,
     preserveOriginalCss |->
        IF input.opts.preserveOriginalCss = {} THEN TRUE
        ELSE CHOOSE b \in input.opts.preserveOriginalCss : TRUE]

\* a conversion has run before on this instance
RunBefore == earlier # <<>>

\* C11: a second conversion of the same package, files and options on the
\* same instance assembles the same HTML as the first one did (and none
\* when the first assembled none), and no conversion changes the options of
\* the instance.
C11_SameHtmlAgain ==
    /\ options = OptionsAsConstructed
    /\ (RunBefore /\ (HtmlWritten \/ Exited)) => html = earlier[1].html

\* a second conversion on the instance has returned, with two content
\* documents in the HTML it assembled
C11_Witness ==
    /\ RunBefore
    /\ pc = "returned"
    /\ earlier[1].html # <<>>
    /\ Len(Contents) = 2

====
